---- MODULE Spec2Model ----
(***************************************************************************)
(* Model of src/app.py: the identifier normalizer (clean_isbn), the header *)
(* detector (detect_header), the schema resolver (process_file), the       *)
(* exclusion-set loader (extract_isbns), the file cleaner (clean_file) and *)
(* the run handler with its comparison block.                              *)
(*                                                                         *)
(* A Python str is a sequence of one-character strings.  A table cell is a *)
(* record: Str(s) a string, NaN the missing value, Num(s) a number.        *)
(***************************************************************************)
EXTENDS Integers, Sequences, FiniteSets, TLC

VARIABLES
  pc,          \* position of the operation under way
  isbn,        \* the raw value handed to clean_isbn
  once,        \* clean_isbn(isbn)
  twice,       \* clean_isbn(clean_isbn(isbn))
  hfile,       \* the file handed to detect_header
  hres,        \* what detect_header returned or raised
  file1,       \* the first comparison file
  file2,       \* the second comparison file
  rem,         \* the ISBN removal file, NoRem when none is uploaded
  currency,    \* the currency selected
  cres,        \* what a clean_file call returned or raised
  d1,          \* the first cleaned table
  d2,          \* the second cleaned table
  new_items,   \* rows of d2 whose key is not in d1
  inactive_items, \* rows of d1 whose key is not in d2
  shown,       \* the st.error and st.success messages, in order
  logged,      \* the logging.error and logging.info entries, in order
  zip          \* the archive handed to the download button

normVars == <<isbn, once, twice>>
hdrVars == <<hfile, hres>>
inVars == <<file1, file2, rem, currency>>
runVars == <<d1, d2, new_items, inactive_items, shown, logged, zip>>

vars == <<pc, normVars, hdrVars, inVars, cres, runVars>>

----------------------------------------------------------------------------
(* Characters *)

ZWSP == "u200b"
NBSP == "u00a0"
BOM == "ufeff"
TAB == "u0009"

LowerChars == <<"a","b","c","d","e","f","g","h","i","j","k","l","m",
                "n","o","p","q","r","s","t","u","v","w","x","y","z">>
UpperChars == <<"A","B","C","D","E","F","G","H","I","J","K","L","M",
                "N","O","P","Q","R","S","T","U","V","W","X","Y","Z">>
DigitChars == {"0","1","2","3","4","5","6","7","8","9"}

Range(f) == {f[i] : i \in DOMAIN f}

\* str.isspace() of one character, which is also the regex class \s
IsSpaceChar(c) == c \in {" ", TAB, NBSP}

\* the regex class \w
IsWordChar(c) == c \in Range(LowerChars) \cup Range(UpperChars) \cup DigitChars \cup {"_"}

\* str.upper() of one character
UpperChar(c) ==
  IF \E i \in DOMAIN LowerChars : LowerChars[i] = c
    THEN UpperChars[CHOOSE i \in DOMAIN LowerChars : LowerChars[i] = c]
    ELSE c

----------------------------------------------------------------------------
(* Strings *)

RECURSIVE LStrip(_)
LStrip(s) == IF s # <<>> /\ IsSpaceChar(Head(s)) THEN LStrip(Tail(s)) ELSE s

RECURSIVE RStrip(_)
RStrip(s) ==
  IF s # <<>> /\ IsSpaceChar(s[Len(s)]) THEN RStrip(SubSeq(s, 1, Len(s) - 1)) ELSE s

\* str.strip()
Strip(s) == RStrip(LStrip(s))

\* str.replace(c, "") for a one-character c
RemoveChar(s, c) == LET keep(x) == x # c IN SelectSeq(s, keep)

\* str.upper()
StrUpper(s) == [i \in DOMAIN s |-> UpperChar(s[i])]

\* .str.replace(r"[^\w\s]", "", regex=True)
RemovePunct(s) == LET keep(x) == IsWordChar(x) \/ IsSpaceChar(x) IN SelectSeq(s, keep)

\* the Python test: pat in s
Contains(s, pat) ==
  \E i \in 1..(Len(s) - Len(pat) + 1) : SubSeq(s, i, i + Len(pat) - 1) = pat

\* str.isnumeric()
IsNumeric(s) == s # <<>> /\ \A i \in DOMAIN s : s[i] \in DigitChars

RECURSIVE Zfill(_, _)
\* str.zfill(w) of a string without a sign
Zfill(s, w) == IF Len(s) >= w THEN s ELSE Zfill(<<"0">> \o s, w)

----------------------------------------------------------------------------
(* Cells *)

Str(s) == [t |-> "str", v |-> s]
NaN == [t |-> "nan", v |-> <<>>]
Num(s) == [t |-> "num", v |-> s]

\* pd.isna
IsNa(x) == x.t = "nan"

\* str(x) of a cell
PyStr(x) == IF x.t = "nan" THEN <<"n","a","n">> ELSE x.v

----------------------------------------------------------------------------
(* IdentifierNormalizer *)

IsbnWidth == 13

clean_isbn_no_strip(x) ==
  IF IsNa(x) THEN Str(<<>>)
  ELSE LET s == RemoveChar(RemoveChar(RemoveChar(PyStr(x), ZWSP), NBSP), BOM)
       IN  Str(IF IsNumeric(s) /\ Len(s) < IsbnWidth THEN Zfill(s, IsbnWidth) ELSE s)

clean_isbn(x) ==
  IF IsNa(x) THEN Str(<<>>)
  ELSE LET s == RemoveChar(RemoveChar(RemoveChar(Strip(PyStr(x)), ZWSP), NBSP), BOM)
       IN  Str(IF IsNumeric(s) /\ Len(s) < IsbnWidth THEN Zfill(s, IsbnWidth) ELSE s)

----------------------------------------------------------------------------
(* Inputs of the normalizer *)

MaxLen == 4
MaxDigits == 14

NormAlphabet == {"0", "7", "X", " ", ZWSP, NBSP, BOM}

RECURSIVE StringsOfLen(_, _)
StringsOfLen(A, n) ==
  IF n = 0 THEN {<<>>}
  ELSE {<<c>> \o s : c \in A, s \in StringsOfLen(A, n - 1)}

StringsUpTo(A, n) == UNION {StringsOfLen(A, k) : k \in 0..n}

Digits7(n) == [i \in 1..n |-> "7"]

\* runs of digits around the canonical width, bare or wrapped in one character
LongInputs ==
  {Digits7(n) : n \in 0..MaxDigits}
    \cup {<<c>> \o Digits7(n) : c \in NormAlphabet, n \in (IsbnWidth - 2)..MaxDigits}
    \cup {Digits7(n) \o <<c>> : c \in NormAlphabet, n \in (IsbnWidth - 2)..MaxDigits}

NormInputs == {NaN} \cup {Str(s) : s \in StringsUpTo(NormAlphabet, MaxLen) \cup LongInputs}

Unset == Str(<<"?">>)

NoFile == [present |-> FALSE, csv |-> FALSE, readable |-> FALSE, grid |-> <<>>]
NoResult == [ok |-> FALSE, err |-> "", val |-> <<>>]
EmptyFrame == [cols |-> <<>>, index |-> <<>>, data |-> <<>>]
NoZip == <<>>

\* the values of the variables an operation does not use
NormIdle == isbn = Unset /\ once = Unset /\ twice = Unset
HdrIdle == hfile = NoFile /\ hres = NoResult
InIdle ==
  file1 = NoFile /\ file2 = NoFile /\ rem = NoFile /\ currency = Str(<<>>)
RunIdle ==
  /\ d1 = EmptyFrame /\ d2 = EmptyFrame
  /\ new_items = EmptyFrame /\ inactive_items = EmptyFrame
  /\ shown = <<>> /\ logged = <<>> /\ zip = NoZip


NormInit ==
  /\ pc = "start" /\ isbn \in NormInputs /\ once = Unset /\ twice = Unset
  /\ HdrIdle /\ InIdle /\ cres = NoResult /\ RunIdle

\* one application of clean_isbn to the raw value
Normalize ==
  /\ pc = "start"
  /\ once' = clean_isbn(isbn)
  /\ pc' = "once"
  /\ UNCHANGED <<isbn, twice, hdrVars, inVars, cres, runVars>>

\* a second application, to the result of the first
Renormalize ==
  /\ pc = "once"
  /\ twice' = clean_isbn(once)
  /\ pc' = "twice"
  /\ UNCHANGED <<isbn, once, hdrVars, inVars, cres, runVars>>

NormNext == Normalize \/ Renormalize

NormSpec == NormInit /\ [][NormNext]_vars

----------------------------------------------------------------------------
(* Exceptions and files *)

\* a call that returned v
Ok(v) == [ok |-> TRUE, err |-> "", val |-> v]
\* a call that raised e
Raise(e) == [ok |-> FALSE, err |-> e, val |-> <<>>]

\* An uploaded file: csv is whether its name ends in ".csv", readable whether
\* the spreadsheet reader can parse its bytes, grid its rows of cells.
\* NoFile (present = FALSE) is an uploader left empty.
File(csv, readable, grid) ==
  [present |-> TRUE, csv |-> csv, readable |-> readable, grid |-> grid]

ISBN13 == <<"I","S","B","N","1","3">>
EAN == <<"E","A","N">>

\* "ISBN13" in col.replace(" ", "") or "EAN" in col.replace(" ", "")
IsIdName(s) ==
  Contains(RemoveChar(s, " "), ISBN13) \/ Contains(RemoveChar(s, " "), EAN)

----------------------------------------------------------------------------
(* HeaderDetector *)

HeaderScanRows == 20

Min(a, b) == IF a < b THEN a ELSE b

\* pd.read_csv is called with errors="replace", a keyword it does not have:
\* the call raises TypeError before reading anything.
read_csv(f) == Raise("TypeError: read_csv() got an unexpected keyword argument 'errors'")

\* pd.read_excel(file_obj, dtype=str, nrows=n, header=None)
read_excel_nrows(f, n) ==
  IF ~f.readable THEN Raise("ValueError: Excel file format cannot be determined")
  ELSE Ok(SubSeq(f.grid, 1, Min(n, Len(f.grid))))

\* the row test of detect_header: any(... for v in vals)
RowMatches(row) ==
  \E j \in DOMAIN row : IsIdName(RemovePunct(StrUpper(PyStr(row[j]))))

RECURSIVE ScanRows(_, _)
\* for i, row in df.iterrows(): ... return i; then the raise
ScanRows(rows, i) ==
  IF i >= Len(rows) THEN Raise("KeyError: No valid header row found.")
  ELSE IF RowMatches(rows[i + 1]) THEN Ok(i)
  ELSE ScanRows(rows, i + 1)

detect_header(f) ==
  LET df == IF f.csv THEN read_csv(f) ELSE read_excel_nrows(f, HeaderScanRows)
  IN  IF ~df.ok THEN df ELSE ScanRows(df.val, 0)

----------------------------------------------------------------------------
(* Tables *)

\* A DataFrame: cols the column labels, index the row labels, data the rows,
\* each a sequence of cells aligned with cols.
Frame(cols, index, data) == [cols |-> cols, index |-> index, data |-> data]

\* x in df.columns
HasCol(df, x) == \E j \in DOMAIN df.cols : df.cols[j] = x

\* the positions of the columns labelled x
ColsNamed(df, x) == {j \in DOMAIN df.cols : df.cols[j] = x}

\* the position of the first column labelled x
ColPos(df, x) == CHOOSE j \in ColsNamed(df, x) : \A k \in ColsNamed(df, x) : j <= k

\* df[x] for a label x borne by one column
Column(df, x) == [i \in DOMAIN df.data |-> df.data[i][ColPos(df, x)]]

\* df[x] = df[x].apply(fn), written with the new cells
WithColumn(df, x, cells) ==
  Frame(df.cols, df.index,
        [i \in DOMAIN df.data |->
           [j \in DOMAIN df.cols |->
              IF j = ColPos(df, x) THEN cells[i] ELSE df.data[i][j]]])

RECURSIVE KeptRows(_, _)
\* the positions i of 1..n with keep[i], in order
KeptRows(keep, n) ==
  IF n = 0 THEN <<>>
  ELSE KeptRows(keep, n - 1) \o (IF keep[n] THEN <<n>> ELSE <<>>)

\* df[mask] for a boolean mask over the rows
RowsWhere(df, keep) ==
  LET at == KeptRows(keep, Len(df.data))
  IN  Frame(df.cols, [i \in DOMAIN at |-> df.index[at[i]]],
            [i \in DOMAIN at |-> df.data[at[i]]])

RECURSIVE PositionsOf(_, _, _)
\* the column positions selected by df[[x for x in names]]: for each name in
\* turn, every column bearing it
PositionsOf(cols, names, k) ==
  IF k > Len(names) THEN <<>>
  ELSE LET here(j) == cols[j] = names[k]
       IN  SelectSeq([j \in DOMAIN cols |-> j], here) \o PositionsOf(cols, names, k + 1)

\* df[names]
Project(df, names) ==
  LET at == PositionsOf(df.cols, names, 1)
  IN  Frame([j \in DOMAIN at |-> df.cols[at[j]]], df.index,
            [i \in DOMAIN df.data |-> [j \in DOMAIN at |-> df.data[i][at[j]]]])

\* df[x] = value, a scalar: every column labelled x is overwritten, and a
\* new last column is added when there is none
Assign(df, x, value) ==
  IF HasCol(df, x)
    THEN Frame(df.cols, df.index,
               [i \in DOMAIN df.data |->
                  [j \in DOMAIN df.cols |->
                     IF df.cols[j] = x THEN value ELSE df.data[i][j]]])
    ELSE Frame(Append(df.cols, x), df.index,
               [i \in DOMAIN df.data |-> Append(df.data[i], value)])

\* Index.is_unique of the column labels
UniqueCols(df) == \A j, k \in DOMAIN df.cols : df.cols[j] = df.cols[k] => j = k

\* df.reindex(columns=req, fill_value=fill)
Reindex(df, req, fill) ==
  IF ~UniqueCols(df)
    THEN Raise("ValueError: cannot reindex on an axis with duplicate labels")
  ELSE Ok(Frame(req, df.index,
                [i \in DOMAIN df.data |->
                   [j \in DOMAIN req |->
                      IF HasCol(df, req[j]) THEN df.data[i][ColPos(df, req[j])]
                      ELSE fill]]))

----------------------------------------------------------------------------
(* Required columns lists *)

REQUIRED_COLUMNS_ISBN == <<
    <<"I","S","B","N","1","3">>,
    <<"T","I","T","L","E">>,
    <<"A","U","T","H","O","R">>,
    <<"D","I","S","C","O","U","N","T">>,
    <<"S","T","O","C","K">>,
    <<"C","U","R">>,
    <<"D","I","M","1">>,
    <<"D","I","M","2">>,
    <<"D","I","M","3">>,
    <<"W","E","I","G","H","T">>,
    <<"P","U","B","L","I","S","H","E","R">>,
    <<"I","M","P","R","I","N","T">> >>

REQUIRED_COLUMNS_EAN == <<
    <<"E","A","N"," ","#">>,
    <<"T","I","T","L","E">>,
    <<"Q","T","Y","A","V">>,
    <<"C","U","R">>,
    <<"P","R","I","C","E">>,
    <<"A","U","T","H","O","R">>,
    <<"P","U","B","L","I","S","H","E","R">>,
    <<"W","G","T"," ","O","Z","S">>,
    <<"L","E","N","G","T","H">>,
    <<"W","I","D","T","H">>,
    <<"H","E","I","G","H","T">>,
    <<"C","D">> >>

CUR == <<"C","U","R">>
STOCK == <<"S","T","O","C","K">>
QTYAV == <<"Q","T","Y","A","V">>

----------------------------------------------------------------------------
(* SchemaResolver *)

DigitSeq == <<"0","1","2","3","4","5","6","7","8","9">>

\* the label the reader gives the column at 0-based position j whose header
\* cell is empty
Unnamed(j) == <<"U","n","n","a","m","e","d",":"," ">> \o <<DigitSeq[j + 1]>>

\* the reader renames the k-th repeat of a header to "name.k"
MangleDupes(names) ==
  [j \in DOMAIN names |->
     LET k == Cardinality({i \in 1..(j - 1) : names[i] = names[j]})
     IN  IF k = 0 THEN names[j] ELSE names[j] \o <<".", DigitSeq[k + 1]>>]

\* pd.read_excel(file_obj, dtype=str, header=hdr)
read_excel_header(f, hdr) ==
  IF ~f.readable THEN Raise("ValueError: Excel file format cannot be determined")
  ELSE LET head == f.grid[hdr + 1]
           names == [j \in DOMAIN head |->
                       IF IsNa(head[j]) THEN Unnamed(j - 1) ELSE PyStr(head[j])]
           n == Len(f.grid) - (hdr + 1)
       IN  Ok(Frame(MangleDupes(names), [i \in 1..n |-> i - 1],
                    [i \in 1..n |-> f.grid[hdr + 1 + i]]))

\* df.columns.str.strip().str.upper().str.replace(r"[^\w\s]", "", regex=True)
CleanName(s) == RemovePunct(StrUpper(Strip(s)))

\* "STOCK" in col.replace(" ", "") or "QTYAV" in col.replace(" ", "")
IsQtyName(s) ==
  Contains(RemoveChar(s, " "), STOCK) \/ Contains(RemoveChar(s, " "), QTYAV)

RECURSIVE StripZeros(_)
StripZeros(s) == IF Len(s) > 1 /\ Head(s) = "0" THEN StripZeros(Tail(s)) ELSE s

\* pd.to_numeric(errors="coerce") of one cell: the number a run of digits
\* writes, the missing value for anything else
to_numeric(x) == IF x.t = "str" /\ IsNumeric(x.v) THEN Num(StripZeros(x.v)) ELSE NaN

\* next((col for col in df.columns if ...), None): the position, 0 for None
FirstId(cols) ==
  IF \E j \in DOMAIN cols : IsIdName(cols[j])
    THEN CHOOSE j \in DOMAIN cols :
           IsIdName(cols[j]) /\ \A k \in 1..(j - 1) : ~IsIdName(cols[k])
    ELSE 0

FirstQty(cols) ==
  IF \E j \in DOMAIN cols : IsQtyName(cols[j])
    THEN CHOOSE j \in DOMAIN cols :
           IsQtyName(cols[j]) /\ \A k \in 1..(j - 1) : ~IsQtyName(cols[k])
    ELSE 0

\* the one element of a singleton set; x \in {e} binds x to the value of e,
\* worked out once
Only(set) == CHOOSE x \in set : TRUE

\* df[c] = df[c].apply(clean_isbn)
ApplyCleanIsbn(df, c) ==
  WithColumn(df, c, [i \in DOMAIN df.data |-> clean_isbn(Column(df, c)[i])])

\* df[s] = pd.to_numeric(df[s], errors="coerce")
ApplyToNumeric(df, s) ==
  WithColumn(df, s, [i \in DOMAIN df.data |-> to_numeric(Column(df, s)[i])])

\* process_file after the header row is known
ParseWithHeader(f, hdr) ==
  Only({ IF ~raw.ok THEN raw
         ELSE Only({ IF FirstId(cols) = 0 THEN Raise("KeyError: No ISBN/EAN column found.")
                     ELSE Only({ Ok([df |-> IF FirstQty(cols) = 0 THEN df1
                                            ELSE ApplyToNumeric(df1, cols[FirstQty(cols)]),
                                     c |-> cols[FirstId(cols)]])
                                 : df1 \in {ApplyCleanIsbn(Frame(cols, raw.val.index, raw.val.data),
                                                           cols[FirstId(cols)])} })
                     : cols \in {[j \in DOMAIN raw.val.cols |-> CleanName(raw.val.cols[j])]} })
         : raw \in {IF f.csv THEN read_csv(f) ELSE read_excel_header(f, hdr)} })

\* process_file: Ok([df, c]) or the exception raised.  The labels found for
\* c and s are borne by one column each in every file considered.
process_file(f) ==
  Only({ IF ~hdr.ok THEN hdr ELSE ParseWithHeader(f, hdr.val) : hdr \in {detect_header(f)} })

----------------------------------------------------------------------------
(* ExclusionSetLoader *)

NoRem == NoFile

\* df.values.flatten()
Flatten(grid) == UNION {{grid[i][j] : j \in DOMAIN grid[i]} : i \in DOMAIN grid}

\* extract_isbns: the set returned, and what it logged
extract_isbns(rem_obj) ==
  IF ~rem_obj.readable
    THEN [rset |-> {}, log |-> <<"Error reading ISBN removal file">>]
    ELSE [rset |-> {clean_isbn(v) : v \in {w \in Flatten(rem_obj.grid) : IsNumeric(PyStr(w))}},
          log |-> <<>>]

----------------------------------------------------------------------------
(* FileCleaner *)

\* the template clean_file selects for a parsed table
Template(df) == IF HasCol(df, ISBN13) THEN REQUIRED_COLUMNS_ISBN ELSE REQUIRED_COLUMNS_EAN

\* df = df[~df[c].isin(rset)]
DropExcluded(df, c, rset) ==
  RowsWhere(df, [i \in DOMAIN df.data |-> Column(df, c)[i] \notin rset])

\* df = df[[x for x in req if x in df.columns]]
KeepRequired(df, req) == LET present(x) == HasCol(df, x) IN Project(df, SelectSeq(req, present))

\* if "CUR" not in df.columns: df["CUR"] = ""
EnsureCur(df) == IF ~HasCol(df, CUR) THEN Assign(df, CUR, Str(<<>>)) ELSE df

\* clean_file after process_file returned df and c
CleanParsed(df, c, cur, rem_obj) ==
  Only({ Only({ Only({ Only({ Reindex(df4, Template(df), Str(<<>>))
                              : df4 \in {Assign(df3, CUR, cur)} })
                       : df3 \in {EnsureCur(df2)} })
                : df2 \in {KeepRequired(df1, Template(df))} })
         : df1 \in {IF rem_obj.present THEN DropExcluded(df, c, extract_isbns(rem_obj).rset)
                    ELSE df} })

clean_file_loader_raises(f, cur, rem_obj) ==
  Only({ IF ~r.ok THEN r
         ELSE IF rem_obj.present /\ ~rem_obj.readable
           THEN Raise("ValueError: Excel file format cannot be determined")
         ELSE CleanParsed(r.val.df, r.val.c, cur, rem_obj)
         : r \in {process_file(f)} })

\* clean_file: Ok(df) or the exception raised; cur is the currency cell
clean_file(f, cur, rem_obj) ==
  Only({ IF ~r.ok THEN r ELSE CleanParsed(r.val.df, r.val.c, cur, rem_obj)
         : r \in {process_file(f)} })

\* what one clean_file call writes to the log
clean_file_log(f, rem_obj) ==
  IF process_file(f).ok /\ rem_obj.present THEN extract_isbns(rem_obj).log ELSE <<>>

----------------------------------------------------------------------------
(* Comparator and TableExporter *)

NotInSwapped(da, db) ==
  LET ka == da.cols[1]
      kb == db.cols[1]
      keys == {Column(da, ka)[i] : i \in DOMAIN da.data}
  IN  RowsWhere(db, [i \in DOMAIN db.data |-> Column(db, kb)[i] \notin keys])

\* d2[~d2[k2].isin(d1[k1])] with k1, k2 the first column labels
NotIn(da, db) ==
  LET ka == da.cols[1]
      kb == db.cols[1]
      keys == {Column(db, kb)[i] : i \in DOMAIN db.data}
  IN  RowsWhere(da, [i \in DOMAIN da.data |-> Column(da, ka)[i] \notin keys])

\* to_excel_bytes: the sheet written, a header row and the rows, no index
to_excel_bytes(df) == <<df.cols>> \o df.data

----------------------------------------------------------------------------
(* Inputs of the header detector *)

MaxGridRows == 22

HdrRowSamples ==
  { <<Str(<<"I","S","B","N","1","3">>), Str(<<"T","i","t","l","e">>)>>,
    <<Str(<<"i","s","b","n","-","1","3">>), NaN>>,
    <<Str(<<"I","t","e","m">>), Str(<<"E","A","N"," ","#">>)>>,
    <<Str(<<"I","S","B","N"," ","1","3">>), NaN>>,
    <<Str(<<"I","S","B","N",TAB,"1","3">>), NaN>>,
    <<Str(<<"I","S","B","N","_","1","3">>), NaN>>,
    <<Str(<<"O","c","e","a","n">>), Str(<<"7">>)>>,
    <<Str(<<"P","r","i","c","e">>), Str(<<"Q","t","y">>)>> }

FillerRow == <<NaN, Str(<<"l","i","s","t">>)>>

HdrLengths == {0, 1, 4, HeaderScanRows, HeaderScanRows + 1, MaxGridRows}
HdrPositions == {0, 1, 3, HeaderScanRows - 1, HeaderScanRows, MaxGridRows - 1}

\* a grid of n rows, filler but for the rows at 0-based p and q
HdrGrid(n, p, rp, q, rq) ==
  [i \in 1..n |-> IF i = p + 1 THEN rp ELSE IF i = q + 1 THEN rq ELSE FillerRow]

HdrGrids ==
  {[i \in 1..n |-> FillerRow] : n \in HdrLengths}
    \cup {HdrGrid(n, p, rp, q, rq) :
            n \in HdrLengths, p \in HdrPositions, q \in HdrPositions,
            rp \in HdrRowSamples, rq \in HdrRowSamples}

HdrFiles ==
  {File(csv, TRUE, g) : csv \in BOOLEAN, g \in HdrGrids}
    \cup {File(csv, FALSE, <<>>) : csv \in BOOLEAN}

HdrInit ==
  /\ pc = "start" /\ hfile \in HdrFiles /\ hres = NoResult
  /\ NormIdle /\ InIdle /\ cres = NoResult /\ RunIdle

\* one call of detect_header
DetectHeader ==
  /\ pc = "start"
  /\ hres' = detect_header(hfile)
  /\ pc' = "detected"
  /\ UNCHANGED <<normVars, hfile, inVars, cres, runVars>>

HdrNext == DetectHeader

HdrSpec == HdrInit /\ [][HdrNext]_vars

----------------------------------------------------------------------------
(* Inputs of the cleaner and of the run *)

MaxRows == 2
MaxLead == 1
RunMaxRows == 2

\* a source column: its header cell and what its data cells hold
Col(cell, role) == [cell |-> cell, role |-> role]

LayoutIsbn == << Col(Str(<<"I","S","B","N","1","3">>), "id"), Col(Str(<<"T","i","t","l","e">>), "text"), Col(Str(<<"S","t","o","c","k">>), "qty"), Col(Str(<<"C","u","r">>), "text") >>
LayoutIsbnPunct == << Col(Str(<<"i","s","b","n","-","1","3">>), "id"), Col(Str(<<"T","I","T","L","E">>), "text") >>
LayoutIsbnSpace == << Col(Str(<<"I","S","B","N"," ","1","3">>), "id"), Col(Str(<<"T","i","t","l","e">>), "text") >>
LayoutEanHash == << Col(Str(<<"E","A","N"," ","#">>), "id"), Col(Str(<<"T","i","t","l","e">>), "text"), Col(Str(<<"Q","t","y","A","v">>), "qty") >>
LayoutEan == << Col(Str(<<"E","A","N">>), "id"), Col(Str(<<"T","i","t","l","e">>), "text") >>
LayoutEanIsbn == << Col(Str(<<"E","A","N">>), "id"), Col(Str(<<"I","S","B","N","1","3">>), "alt"), Col(Str(<<"T","i","t","l","e">>), "text") >>
LayoutDupTitle == << Col(Str(<<"I","S","B","N","1","3">>), "id"), Col(Str(<<"T","i","t","l","e">>), "text"), Col(Str(<<"T","I","T","L","E">>), "text") >>
LayoutDupOther == << Col(Str(<<"I","S","B","N","1","3">>), "id"), Col(Str(<<"F","o","o">>), "text"), Col(Str(<<"F","O","O">>), "text") >>
LayoutRepeat == << Col(Str(<<"I","S","B","N","1","3">>), "id"), Col(Str(<<"T","i","t","l","e">>), "text"), Col(Str(<<"T","i","t","l","e">>), "text") >>
LayoutBlank == << Col(Str(<<"T","i","t","l","e">>), "text"), Col(NaN, "text"), Col(Str(<<"I","S","B","N","1","3">>), "id") >>
LayoutNone == << Col(Str(<<"P","r","i","c","e">>), "text"), Col(Str(<<"Q","t","y">>), "text") >>

CleanLayouts ==
  { LayoutIsbn, LayoutIsbnPunct, LayoutIsbnSpace, LayoutEanHash, LayoutEan,
    LayoutEanIsbn, LayoutDupTitle, LayoutDupOther, LayoutRepeat, LayoutBlank,
    LayoutNone }

RunLayouts == {LayoutIsbn, LayoutEanHash, LayoutEanIsbn, LayoutNone}

Id100 == Str(<<"1","0","0">>)
Id100Spaced == Str(<<" ","1","0","0">>)
Id200 == Str(<<"2","0","0">>)
Id400 == Str(<<"4","0","0">>)
IdLong == Str(Digits7(IsbnWidth))
IdHidden == Str(<<ZWSP," ","2","0","0">>)

CleanIds == {Id100, Id100Spaced, Id200, IdHidden, IdLong, NaN}
RunIds == {Id100Spaced, Id200}

\* the data cell of row i (from 1) in a column of the given role, for a row
\* whose raw identifier is id
DataCell(role, id, i) ==
  CASE role = "id" -> id
    [] role = "alt" -> IdLong
    [] role = "qty" -> IF i % 2 = 1 THEN Str(<<"0","0","7">>) ELSE Str(<<"n","a">>)
    [] OTHER -> Str(<<"t", DigitSeq[i + 1]>>)

\* lead rows of no interest, the header row, one data row per identifier
Grid(layout, lead, ids) ==
  [i \in 1..lead |-> [j \in DOMAIN layout |-> IF j = 1 THEN Str(<<"l","i","s","t">>) ELSE NaN]]
    \o <<[j \in DOMAIN layout |-> layout[j].cell]>>
    \o [i \in DOMAIN ids |-> [j \in DOMAIN layout |-> DataCell(layout[j].role, ids[i], i)]]

Unreadable == File(FALSE, FALSE, <<>>)

CleanFiles ==
  {File(FALSE, TRUE, Grid(l, lead, ids)) :
     l \in CleanLayouts, lead \in 0..MaxLead, ids \in StringsUpTo(CleanIds, MaxRows)}
    \cup {File(TRUE, TRUE, Grid(LayoutIsbn, 0, ids)) : ids \in StringsUpTo(CleanIds, 1)}
    \cup {Unreadable}

RunFiles ==
  {File(FALSE, TRUE, Grid(l, 0, ids)) :
     l \in RunLayouts, ids \in StringsUpTo(RunIds, RunMaxRows)}
    \cup {File(TRUE, TRUE, Grid(LayoutIsbn, 0, <<Id100>>)), Unreadable, NoFile}

RemFiles ==
  { NoRem, Unreadable,
    File(FALSE, TRUE, << <<Id100>> >>),
    File(FALSE, TRUE, << <<Id400, NaN>>, <<Str(<<"x">>), Id100Spaced>> >>),
    File(FALSE, TRUE, << <<Str(Zfill(Id200.v, IsbnWidth))>>, <<IdLong>> >>) }

RunRemFiles == {NoRem, Unreadable, File(FALSE, TRUE, << <<Id100>>, <<IdLong>> >>)}

USD == Str(<<"U","S","D">>)
GBP == Str(<<"G","B","P">>)
Currencies == {USD, GBP}

----------------------------------------------------------------------------
(* One call of clean_file *)

CleanInit ==
  /\ pc = "start"
  /\ file1 \in CleanFiles /\ file2 = NoFile /\ rem \in RemFiles /\ currency \in Currencies
  /\ cres = NoResult
  /\ NormIdle /\ HdrIdle /\ RunIdle

\* clean_file(file1, currency, rem)
CleanFile ==
  /\ pc = "start"
  /\ cres' = clean_file(file1, currency, rem)
  /\ logged' = logged \o clean_file_log(file1, rem)
  /\ pc' = "cleaned"
  /\ UNCHANGED <<normVars, hdrVars, inVars, d1, d2, new_items, inactive_items, shown, zip>>

CleanNext == CleanFile

CleanSpec == CleanInit /\ [][CleanNext]_vars

----------------------------------------------------------------------------
(* The run handler *)

Error(text) == [kind |-> "error", text |-> text]
Success(text) == [kind |-> "success", text |-> text]

RunInit ==
  /\ pc = "idle"
  /\ file1 \in RunFiles /\ file2 \in RunFiles /\ rem \in RunRemFiles
  /\ currency \in Currencies
  /\ cres = NoResult
  /\ NormIdle /\ HdrIdle /\ RunIdle

\* the button is pressed: both files are required
Click ==
  /\ pc = "idle"
  /\ IF ~file1.present \/ ~file2.present
       THEN /\ shown' = Append(shown, Error("Please upload both comparison files."))
            /\ pc' = "rejected"
       ELSE /\ shown' = shown
            /\ pc' = "clean1"
  /\ UNCHANGED <<normVars, hdrVars, inVars, cres, d1, d2, new_items, inactive_items, logged, zip>>

\* except Exception as e: st.error(...); logging.error(...)
Failed(r, log) ==
  /\ shown' = Append(shown, Error(r.err))
  /\ logged' = logged \o log \o <<"Processing error">>
  /\ pc' = "failed"

\* d1 = clean_file(file1, currency, rem_file)
CleanFirst ==
  /\ pc = "clean1"
  /\ LET r == clean_file(file1, currency, rem)
         log == clean_file_log(file1, rem)
     IN  IF r.ok
           THEN /\ d1' = r.val
                /\ logged' = logged \o log
                /\ pc' = "clean2"
                /\ shown' = shown
           ELSE /\ Failed(r, log)
                /\ d1' = d1
  /\ UNCHANGED <<normVars, hdrVars, inVars, cres, d2, new_items, inactive_items, zip>>

CleanSecondPartialOutput ==
  /\ pc = "clean2"
  /\ LET r == clean_file(file2, currency, rem)
         log == clean_file_log(file2, rem)
     IN  IF r.ok
           THEN /\ d2' = r.val
                /\ logged' = logged \o log
                /\ pc' = "compare"
                /\ shown' = shown
                /\ zip' = zip
           ELSE /\ Failed(r, log)
                /\ d2' = d2
                /\ zip' = [cleaned1 |-> to_excel_bytes(d1)]
  /\ UNCHANGED <<normVars, hdrVars, inVars, cres, d1, new_items, inactive_items>>

\* d2 = clean_file(file2, currency, rem_file)
CleanSecond ==
  /\ pc = "clean2"
  /\ LET r == clean_file(file2, currency, rem)
         log == clean_file_log(file2, rem)
     IN  IF r.ok
           THEN /\ d2' = r.val
                /\ logged' = logged \o log
                /\ pc' = "compare"
                /\ shown' = shown
                /\ zip' = zip
           ELSE /\ Failed(r, log)
                /\ d2' = d2
                /\ zip' = zip
  /\ UNCHANGED <<normVars, hdrVars, inVars, cres, d1, new_items, inactive_items>>

\* new_items = d2[~d2[k2].isin(d1[k1])]; inactive_items = d1[~d1[k1].isin(d2[k2])]
Compare ==
  /\ pc = "compare"
  /\ new_items' = NotIn(d2, d1)
  /\ inactive_items' = NotIn(d1, d2)
  /\ pc' = "export"
  /\ UNCHANGED <<normVars, hdrVars, inVars, cres, d1, d2, shown, logged, zip>>

\* the four sheets are written and zipped, the download button is shown
Export ==
  /\ pc = "export"
  /\ zip' = [cleaned1 |-> to_excel_bytes(d1), cleaned2 |-> to_excel_bytes(d2),
             new_items |-> to_excel_bytes(new_items),
             inactive_items |-> to_excel_bytes(inactive_items)]
  /\ shown' = Append(shown, Success("Processing completed"))
  /\ logged' = Append(logged, "Comparison finished")
  /\ pc' = "done"
  /\ UNCHANGED <<normVars, hdrVars, inVars, cres, d1, d2, new_items, inactive_items>>

RunNext == Click \/ CleanFirst \/ CleanSecond \/ Compare \/ Export

Spec == RunInit /\ [][RunNext]_vars

----------------------------------------------------------------------------
(* Properties of the identifier normalizer, under NormSpec *)

\* C2: clean_isbn is idempotent: applying it to its own result changes
\* nothing, for every input string.
C2_Idempotent == pc = "twice" => twice = once

IsInvisible(ch) == ch \in {ZWSP, NBSP, BOM}
AllSpace(s) == \A i \in DOMAIN s : IsSpaceChar(s[i])

\* t is s without its leading and trailing whitespace
IsStripOf(t, s) ==
  /\ \E a \in 0..Len(s) : \E b \in a..Len(s) :
       /\ t = SubSeq(s, a + 1, b)
       /\ AllSpace(SubSeq(s, 1, a)) /\ AllSpace(SubSeq(s, b + 1, Len(s)))
  /\ t # <<>> => ~IsSpaceChar(t[1]) /\ ~IsSpaceChar(t[Len(t)])

\* u is t without its zero-width space, non-breaking space and byte-order
\* mark characters
IsVisibleOf(u, t) ==
  LET at == {i \in DOMAIN t : ~IsInvisible(t[i])}
  IN  /\ Len(u) = Cardinality(at)
      /\ \A i \in at : u[Cardinality({k \in at : k <= i})] = t[i]

\* r is s left-padded with "0" to the width w
IsPadOf(r, s, w) ==
  /\ Len(r) = w
  /\ SubSeq(r, w - Len(s) + 1, w) = s
  /\ \A i \in 1..(w - Len(s)) : r[i] = "0"

OnlyDigits(s) == s # <<>> /\ \A i \in DOMAIN s : s[i] \in DigitChars

\* C6: a missing input gives ""; otherwise, with s the input stripped of
\* leading and trailing whitespace and then of the three invisible
\* characters, the result is s left-padded with "0" to exactly 13 when s is
\* all digits and shorter than 13, and s unchanged when not.  So a result
\* that is all digits has at least 13 of them, and "" is never padded.
C6_NormalizeResult ==
  pc # "start" =>
    /\ once.t = "str"
    /\ IsNa(isbn) => once.v = <<>>
    /\ ~IsNa(isbn) =>
         \E a \in 0..Len(isbn.v) : \E b \in a..Len(isbn.v) :
           LET t == SubSeq(isbn.v, a + 1, b)
               keep(ch) == ~IsInvisible(ch)
               s == SelectSeq(t, keep)
           IN  /\ IsStripOf(t, isbn.v)
               /\ IsVisibleOf(s, t)
               /\ IF OnlyDigits(s) /\ Len(s) < 13
                    THEN IsPadOf(once.v, s, 13)
                    ELSE once.v = s
    /\ OnlyDigits(once.v) => Len(once.v) >= 13
    /\ (~IsNa(isbn) /\ AllSpace(isbn.v)) => once.v = <<>>

\* a short run of digits behind a non-breaking space was stripped and padded
C6_Witness ==
  /\ pc = "once"
  /\ isbn = Str(<<NBSP, "7", "0", " ">>)
  /\ once = Str(<<"0","0","0","0","0","0","0","0","0","0","0","7","0">>)

----------------------------------------------------------------------------
(* Properties of the header detector, under HdrSpec *)

\* the cell test as the claim words it: uppercased, punctuation removed,
\* whitespace removed, then searched for "ISBN13" or "EAN"
C9_CellMatches(cell) ==
  LET noSpace(ch) == ~IsSpaceChar(ch)
      v == SelectSeq(RemovePunct(StrUpper(PyStr(cell))), noSpace)
  IN  Contains(v, ISBN13) \/ Contains(v, EAN)

C9_Hits(grid) ==
  {i \in 0..(Min(Len(grid), 20) - 1) : \E j \in DOMAIN grid[i + 1] : C9_CellMatches(grid[i + 1][j])}

\* C9: detect_header returns the smallest 0-based index, among the first 20
\* rows, of a row with a matching cell, and raises the header-not-found
\* error exactly when the first 20 rows hold no such row.
C9_FirstMatchingRow ==
  (pc = "detected" /\ hfile.readable) =>
    LET hits == C9_Hits(hfile.grid)
    IN  IF hits = {}
          THEN ~hres.ok /\ hres.err = "KeyError: No valid header row found."
          ELSE hres.ok /\ hres.val \in hits /\ \A i \in hits : hres.val <= i

----------------------------------------------------------------------------
(* Properties of one clean_file call, under CleanSpec *)

\* the table as the reader parses it below the detected header row
Parsed(f) == read_excel_header(f, detect_header(f).val).val

\* the position of the identifier column SchemaResolver locates
IdPos(f) == FirstId([j \in DOMAIN Parsed(f).cols |-> CleanName(Parsed(f).cols[j])])

\* the normalized identifier of the source row labelled l
SourceId(f, l) == clean_isbn(Parsed(f).data[l + 1][IdPos(f)])

\* C3: for every parsed table with an identifier column, clean_file returns a
\* table whose columns are exactly the 12 of the selected template, in
\* order; the ISBN template is selected exactly when a column is named
\* "ISBN13".
C3_TemplateColumns ==
  (pc = "cleaned" /\ process_file(file1).ok) =>
    /\ cres.ok
    /\ cres.val.cols =
         (IF \E j \in DOMAIN process_file(file1).val.df.cols :
                process_file(file1).val.df.cols[j] = ISBN13
            THEN REQUIRED_COLUMNS_ISBN ELSE REQUIRED_COLUMNS_EAN)
    /\ Len(cres.val.cols) = 12

\* C4: in every cleaned table the first column holds, for each retained row,
\* the normalized value of that row's identifier column.
C4_FirstColumnIsIdentifier ==
  (pc = "cleaned" /\ cres.ok) =>
    \A i \in DOMAIN cres.val.data :
      cres.val.data[i][1] = SourceId(file1, cres.val.index[i])

\* C5: with an exclusion set, a source row is kept exactly when its
\* normalized identifier is not in the set, the kept rows keep their order,
\* and no value of the cleaned table's identifier column is in the set.
C5_ExclusionFiltering ==
  (pc = "cleaned" /\ cres.ok /\ rem.present) =>
    LET rset == extract_isbns(rem).rset
        labels == 0..(Len(Parsed(file1).data) - 1)
    IN  /\ Range(cres.val.index) = {l \in labels : SourceId(file1, l) \notin rset}
        /\ \A i, k \in DOMAIN cres.val.index :
             i < k => cres.val.index[i] < cres.val.index[k]
        /\ \A i \in DOMAIN cres.val.data : cres.val.data[i][1] \notin rset

----------------------------------------------------------------------------
(* Properties of the run, under Spec *)

\* the normalized identifiers of a primary file's rows, in row order
SourceKeys(f) ==
  [i \in DOMAIN process_file(f).val.df.data |->
     Column(process_file(f).val.df, process_file(f).val.c)[i]]

\* a primary file of the ISBN or of the EAN format: one identifier column
OneIdColumn(f) ==
  Cardinality({j \in DOMAIN process_file(f).val.df.cols :
                 IsIdName(process_file(f).val.df.cols[j])}) = 1

\* the labels of the rows of keys whose key is in none of others
RowsOnlyIn(keys, others) ==
  {i - 1 : i \in {j \in DOMAIN keys : keys[j] \notin Range(others)}}

\* C1: for two primary files of the ISBN or the EAN format, with K1 and K2
\* the normalized identifiers of file 1 and file 2, the new items are
\* exactly the rows of file 2 keyed in K2 \ K1 and the inactive items exactly
\* the rows of file 1 keyed in K1 \ K2.
C1_EndToEnd ==
  (pc = "done" /\ ~rem.present /\ OneIdColumn(file1) /\ OneIdColumn(file2)) =>
    /\ Range(new_items.index) = RowsOnlyIn(SourceKeys(file2), SourceKeys(file1))
    /\ Range(inactive_items.index) = RowsOnlyIn(SourceKeys(file1), SourceKeys(file2))

\* sub is the rows of df, in order, whose first cell is in none of the first
\* cells of other, under df's columns
IsRowsNotIn(sub, df, other) ==
  LET keys == {other.data[k][1] : k \in DOMAIN other.data}
      kept == {i \in DOMAIN df.data : df.data[i][1] \notin keys}
  IN  /\ sub.cols = df.cols
      /\ Len(sub.data) = Cardinality(kept)
      /\ Len(sub.index) = Cardinality(kept)
      /\ \A i \in kept :
           LET n == Cardinality({k \in kept : k <= i})
           IN  sub.data[n] = df.data[i] /\ sub.index[n] = df.index[i]

\* C7: new_items is the subsequence of d2's rows whose first-column value is
\* nowhere in d1's first column, inactive_items the subsequence of d1's rows
\* whose first-column value is nowhere in d2's; membership is by set, order
\* and columns are those of the source table.
C7_Comparator ==
  pc \in {"export", "done"} =>
    /\ IsRowsNotIn(new_items, d2, d1)
    /\ IsRowsNotIn(inactive_items, d1, d2)

\* a key held twice by d1 excludes a row of d2, another row of d2 is new
C7_Witness ==
  /\ pc = "done"
  /\ \E i, k \in DOMAIN d1.data : i # k /\ d1.data[i][1] = d1.data[k][1]
                                   /\ \E n \in DOMAIN d2.data : d2.data[n][1] = d1.data[i][1]
  /\ Len(new_items.data) = 1 /\ Len(d2.data) = 2
  /\ d2.data[1][1] # d2.data[2][1]

Errors == SelectSeq(shown, LAMBDA m : m.kind = "error")

\* C8: when header detection or schema resolution fails on either primary
\* file, the run ends with exactly one error message and without the
\* archive or any of its four sheets.
C8_NoPartialOutput ==
  /\ (/\ file1.present /\ file2.present
      /\ ~process_file(file1).ok \/ ~process_file(file2).ok
      /\ pc \notin {"idle", "clean1", "clean2"})
       => /\ pc = "failed"
          /\ Len(Errors) = 1
          /\ Len(shown) = 1
          /\ zip = NoZip
  /\ pc = "failed" => zip = NoZip /\ Len(Errors) = 1

\* the first file was cleaned, the second has no header row
C8_Witness ==
  /\ pc = "failed"
  /\ d1 # EmptyFrame /\ Len(d1.data) > 0
  /\ shown = <<Error("KeyError: No valid header row found.")>>

\* the archive of a run over the primary files alone
ZipWithoutRem ==
  LET c1 == clean_file(file1, currency, NoRem).val
      c2 == clean_file(file2, currency, NoRem).val
  IN  [cleaned1 |-> to_excel_bytes(c1), cleaned2 |-> to_excel_bytes(c2),
       new_items |-> to_excel_bytes(NotIn(c2, c1)),
       inactive_items |-> to_excel_bytes(NotIn(c1, c2))]

\* C10: an exclusion file that cannot be parsed never aborts the run: the
\* loader returns the empty set, no row is dropped, and the run ends as it
\* would have with no exclusion file.
C10_BadExclusionFileIgnored ==
  (rem.present /\ ~rem.readable) =>
    /\ pc = "failed" =>
         ~clean_file(file1, currency, NoRem).ok \/ ~clean_file(file2, currency, NoRem).ok
    /\ pc \in {"clean2", "compare", "export", "done"} =>
         d1 = clean_file(file1, currency, NoRem).val
    /\ pc \in {"compare", "export", "done"} =>
         d2 = clean_file(file2, currency, NoRem).val
    /\ pc = "done" => zip = ZipWithoutRem

\* a run with an unreadable exclusion file ended with all four sheets
C10_Witness ==
  /\ pc = "done"
  /\ rem.present /\ ~rem.readable
  /\ logged[1] = "Error reading ISBN removal file"
  /\ Len(d1.data) = 2 /\ Len(zip.new_items) = 2

====
